---- MODULE Spec2Model ----
(***************************************************************************)
(* State-machine model of src/traits/default_impls.rs:                     *)
(*   - DefaultCellCollector (check_ckb_chain, collect_live_cells,          *)
(*     lock_cell, apply_tx, reset)                                         *)
(*   - DefaultTransactionDependencyProvider (get_transaction,              *)
(*     get_cell_with_data, get_header, get_consensus) behind its Mutex.    *)
(* Node and index-service responses are inputs chosen with \E.             *)
(***************************************************************************)
EXTENDS Integers, Sequences, FiniteSets, TLC

(***************************************************************************)
(* Bounds of the model.                                                    *)
(***************************************************************************)
\* width of the capacity words (u64 in the program, scaled down)
CapacityBits == 4
\* longest Offchain Overlay the model builds
MaxOverlay == 3
\* number of pages holding a cell the collector takes that the index service
\* returns to one collect call
MaxPages == 3
\* number of non-empty pages the index service returns to one collect call
MaxRequests == 7
\* number of cells in one page of the index service
MaxPageLen == 2

\* threads sharing one provider
NThreads == 2
\* largest cache capacity a provider is made with
MaxCapacity == 2
\* calls made of one provider
MaxCalls == 3

(***************************************************************************)
(* Program constants.                                                      *)
(***************************************************************************)
\* let mut retry = 10;
RetryBudget == 10
\* let mut limit: u32 = 128;
InitialLimit == 128
\* let max_limit = 4096;
max_limit == 4096

Modulus == 2 ^ CapacityBits
MaxU == Modulus - 1

(***************************************************************************)
(* The data the operations are called with.                                *)
(***************************************************************************)
\* lock scripts are numbered: script 1 is the one the queries ask for

OutPoint(tx_hash, index) == <<tx_hash, index>>

\* LiveCell { output (lock, capacity), out_point, block_number, tx_index }
LiveCell(out_point, lock, capacity, block_number, tx_index) ==
    [out_point |-> out_point, lock |-> lock, capacity |-> capacity,
     block_number |-> block_number, tx_index |-> tx_index]

\* Transactions the caller may register; the hash is a function of the content.
\* Transaction 1 spends a confirmed cell and has two outputs; transaction 2
\* spends the first output of transaction 1 and another confirmed cell and
\* has one large output.
TxPool ==
    { [hash |-> 1,
       inputs |-> << OutPoint(3, 1) >>,
       outputs |-> << [lock |-> 1, capacity |-> 2], [lock |-> 1, capacity |-> 1] >>],
      [hash |-> 2,
       inputs |-> << OutPoint(1, 0), OutPoint(3, 0) >>,
       outputs |-> << [lock |-> 1, capacity |-> MaxU - 1] >>] }

\* Cells the index service may report: a large confirmed cell, the confirmed
\* first output of transaction 1, and a cell of another lock script.
IndexCells ==
    { LiveCell(OutPoint(3, 0), 1, MaxU - 3, 1, 1),
      LiveCell(OutPoint(1, 0), 1, 2, 2, 1),
      LiveCell(OutPoint(3, 1), 2, 1, 1, 0) }

\* out_points a caller passes to lock_cell
LockTargets == { OutPoint(1, 1), OutPoint(3, 0) }

\* CellQueryOptions: the script asked for and min_total_capacity
Queries == [lock : {1}, min_total_capacity : {0, 3, MaxU}]

\* maturity floors get_max_mature_number may report
MatureNumbers == {1, 2}

\* chain tips: (number, hash)
Tip(number, hash) == [number |-> number, hash |-> hash]
NodeTips == { Tip(n, h) : n \in {2, 3}, h \in {1, 2} }
IndexTips == { Tip(n, h) : n \in {1, 2, 3}, h \in {1, 2} }
NoTip == Tip(0, 0)

\* opaque continuation cursors; 0 stands for None
Cursors == {1, 2}
NoCursor == 0

\* responses of an RPC: a transport failure, or a value
RpcErr == [kind |-> "err"]
TipHeaderResponses == {RpcErr} \cup { [kind |-> "ok", tip |-> t] : t \in NodeTips }
GetTipResponses ==
    {RpcErr, [kind |-> "none"]} \cup { [kind |-> "some", tip |-> t] : t \in IndexTips }
MatureResponses == {RpcErr} \cup { [kind |-> "ok", value |-> n] : n \in MatureNumbers }

RECURSIVE SeqsUpTo(_, _)
\* sequences of distinct elements of S, of length at most n
SeqsUpTo(S, n) ==
    IF n = 0 THEN { <<>> }
    ELSE LET shorter == SeqsUpTo(S, n - 1) IN
         shorter \cup { Append(s, x) : s \in { t \in shorter : Len(t) = n - 1 },
                                        x \in S }

DistinctSeqs(S, n) ==
    { s \in SeqsUpTo(S, n) : \A i, j \in 1..Len(s) : i # j => s[i] # s[j] }

PageObjects == DistinctSeqs(IndexCells, MaxPageLen)
PageResponses ==
    {RpcErr} \cup { [kind |-> "ok", objects |-> o, last_cursor |-> c] :
                      o \in PageObjects, c \in Cursors }

(***************************************************************************)
(* State.                                                                  *)
(***************************************************************************)
VARIABLES
    \* DefaultCellCollector
    locked_cells,          \* HashSet<(H256, u32)>
    offchain_live_cells,   \* Vec<LiveCell>
    pc,                    \* where the running collector call stands
    caller,                \* the operation check_ckb_chain runs for
    local,                 \* locals of the running collect_live_cells
    tip_header,            \* check_ckb_chain: the node tip it fetched
    retry,                 \* check_ckb_chain: attempts left
    ret,                   \* what the last collector call returned
    \* history of the running or last collector call
    pre,                   \* Lock Set, overlay and handed-out cells at its start
    given,                 \* out_points handed out by apply_changes collects since reset
    observed,              \* index tips the polls of the sync check saw
    net,                   \* requests sent and sleeps taken
    \* DefaultTransactionDependencyProvider (DefaultTxDepProviderInner)
    cache_capacity,        \* the capacity the three caches were made with
    consensus,             \* Option<Consensus>
    tx_cache,              \* LruCache<Byte32, TransactionView>, most recently used first
    cell_cache,            \* LruCache<OutPoint, (CellOutput, Bytes)>
    header_cache,          \* LruCache<Byte32, HeaderView>
    holder,                \* the thread holding the Mutex, 0 when it is free
    tpc,                   \* where each thread's call stands
    tcall,                 \* the accessor and key of each thread's call
    tret,                  \* what each thread's last call returned
    \* history of the provider
    tsaw,                  \* what a waiting thread saw of another's fetch of its key
    fetches,               \* network fetches issued, per accessor and key
    failed,                \* fetches that ended in an error, per accessor and key
    evicted,               \* entries pushed out by capacity pressure, per accessor and key
    calls                  \* calls made so far

collectorVars ==
    <<locked_cells, offchain_live_cells, pc, caller, local, tip_header, retry, ret,
      pre, given, observed, net>>

providerVars ==
    <<cache_capacity, consensus, tx_cache, cell_cache, header_cache, holder, tpc, tcall,
      tret, tsaw, fetches, failed, evicted, calls>>

vars == <<collectorVars, providerVars>>

NoLocal ==
    [query |-> [lock |-> 1, min_total_capacity |-> 0], apply_changes |-> FALSE,
     max_mature_number |-> 0, cells |-> <<>>, total_capacity |-> 0,
     locked_cells |-> {}, limit |-> 0, last_cursor |-> NoCursor]

\* limit and cursor are those of the last get_cells request, from is the
\* last_cursor of the page before it, page_cursor the one of the page it got;
\* taken counts the pages a cell was taken of, empty tells of an empty page,
\* rpc_err of a request that failed, repeated of a page that held a cell the
\* call had taken of an earlier page (an index service that keeps to its
\* cursor reports no cell twice)
NoNet == [node |-> 0, tip_header |-> 0, get_tip |-> 0, get_cells |-> 0, sleeps |-> 0,
          synced |-> FALSE, limit |-> 0, cursor |-> NoCursor, from |-> NoCursor,
          page_cursor |-> NoCursor, taken |-> 0, empty |-> FALSE, rpc_err |-> FALSE,
          repeated |-> FALSE]

Result(op, status, err, cells, total) ==
    [op |-> op, status |-> status, err |-> err, cells |-> cells, total |-> total,
     arg |-> 0]

NoResult == Result("none", "none", "", <<>>, 0)

Snapshot ==
    [locked |-> locked_cells, overlay |-> offchain_live_cells, given |-> given,
     query |-> NoLocal.query, apply_changes |-> FALSE]

OutPointsOf(cells) == { cells[i].out_point : i \in 1..Len(cells) }

RECURSIVE SumCap(_)
SumCap(cells) ==
    IF cells = <<>> THEN 0 ELSE cells[1].capacity + SumCap(Tail(cells))

(***************************************************************************)
(* Returning from a collector call: the locals are dropped.                *)
(***************************************************************************)
Return(r) ==
    /\ pc' = "idle"
    /\ caller' = "none"
    /\ local' = NoLocal
    /\ tip_header' = NoTip
    /\ retry' = 0
    /\ ret' = r

Err(op, kind) == Result(op, "err", kind, <<>>, 0)

\* a call starts: its history starts afresh
BeginWith(query, apply_changes) ==
    /\ pc = "idle"
    /\ pre' = [Snapshot EXCEPT !.query = query, !.apply_changes = apply_changes]
    /\ observed' = <<>>

Begin == BeginWith(NoLocal.query, FALSE)

(***************************************************************************)
(* check_ckb_chain (lines 100-140).                                        *)
(***************************************************************************)
\* how a poll's answer is named by the specification
ObsKind(tip, resp) ==
    CASE resp.kind = "err" -> "err"
      [] resp.kind = "none" -> "none"
      [] resp.tip.number < tip.number -> "behind"
      [] resp.tip.number > tip.number -> "ahead"
      [] resp.tip.hash = tip.hash -> "match"
      [] OTHER -> "mismatch"

\* while retry > 0
LoopContinuesOffByOne(n) == n >= 0
LoopContinues(n) == n > 0

\* the match on indexer_client.get_tip() in one round of the loop
PollOutcomeNoHash(tip, resp) ==
    IF resp.kind = "err" THEN "internal"
    ELSE IF resp.kind = "none" THEN "not_synced"
    ELSE IF tip.number > resp.tip.number THEN "retry"
    ELSE IF tip.number = resp.tip.number THEN "ok"
    ELSE "inconsistent"
PollOutcomeNotBehind(tip, resp) ==
    IF resp.kind = "err" THEN "internal"
    ELSE IF resp.kind = "none" THEN "not_synced"
    ELSE IF tip.number > resp.tip.number THEN "retry"
    ELSE "ok"
PollOutcome(tip, resp) ==
    IF resp.kind = "err" THEN "internal"
    ELSE IF resp.kind = "none" THEN "not_synced"
    ELSE IF tip.number > resp.tip.number THEN "retry"
    ELSE IF tip.hash = resp.tip.hash /\ tip.number = resp.tip.number THEN "ok"
    ELSE "inconsistent"

\* the collector is asked whether the index service is in step with the node
check_ckb_chain ==
    /\ Begin
    /\ pc' = "tip_header"
    /\ caller' = "check"
    /\ ret' = NoResult
    /\ net' = NoNet
    /\ UNCHANGED <<locked_cells, offchain_live_cells, local, tip_header, retry, given>>
    /\ UNCHANGED providerVars

\* lines 172-177 of collect_live_cells, entered when the sync check succeeded
StartPaging ==
    /\ pc' = "get_cells"
    /\ local' = [local EXCEPT !.locked_cells = locked_cells,
                              !.limit = InitialLimit,
                              !.last_cursor = NoCursor]
    /\ tip_header' = NoTip
    /\ retry' = 0
    /\ UNCHANGED <<caller, ret>>

\* check_ckb_chain returned Ok(())
SyncOk ==
    IF caller = "collect" THEN StartPaging ELSE Return(Result("check", "ok", "", <<>>, 0))

\* the node answers get_tip_header (lines 101-107)
get_tip_header(resp) ==
    /\ pc = "tip_header"
    /\ net' = [net EXCEPT !.node = @ + 1, !.tip_header = @ + 1,
                          !.rpc_err = (resp.kind = "err")]
    /\ IF resp.kind = "err"
       THEN Return(Err(caller, "internal"))
       ELSE /\ tip_header' = resp.tip
            /\ retry' = RetryBudget
            /\ IF LoopContinues(RetryBudget)
               THEN pc' = "get_tip" /\ UNCHANGED <<caller, local, ret>>
               ELSE Return(Err(caller, "inconsistent"))
    /\ UNCHANGED <<locked_cells, offchain_live_cells, pre, given, observed>>
    /\ UNCHANGED providerVars

\* the index service answers get_tip: one round of the loop (lines 108-134).
\* The polls are the history of the sync check: when it returns Ok to
\* collect_live_cells, what is kept of them is whether the last one saw the
\* index tip match the node tip.
get_tip(resp) ==
    LET outcome == PollOutcome(tip_header, resp)
        saw == ObsKind(tip_header, resp)
        goes_on == outcome = "ok" /\ caller = "collect"
    IN
    /\ pc = "get_tip"
    /\ observed' = IF goes_on THEN <<>> ELSE Append(observed, saw)
    /\ net' = [net EXCEPT !.get_tip = IF goes_on THEN 0 ELSE @ + 1,
                          !.sleeps = IF goes_on THEN 0
                                     ELSE IF outcome = "retry" THEN @ + 1 ELSE @,
                          !.synced = (saw = "match"),
                          !.rpc_err = (resp.kind = "err")]
    /\ CASE outcome = "retry" ->
              IF LoopContinues(retry - 1)
              THEN /\ retry' = retry - 1
                   /\ UNCHANGED <<pc, caller, local, tip_header, ret>>
              ELSE Return(Err(caller, "inconsistent"))
         [] outcome = "ok" -> SyncOk
         [] OTHER -> Return(Err(caller, outcome))
    /\ UNCHANGED <<locked_cells, offchain_live_cells, pre, given>>
    /\ UNCHANGED providerVars

(***************************************************************************)
(* collect_live_cells (lines 144-215).                                     *)
(***************************************************************************)
\* CellQueryOptions::match_cell: the script asked for, at or below the
\* maturity floor
match_cell(query, cell, max_mature_number) ==
    /\ cell.lock = query.lock
    /\ cell.block_number <= max_mature_number

\* total_capacity += capacity on a u64: the sum, and whether it overflowed
\* (a build with overflow checks panics there, a build without wraps)
AddCapacity(total, capacity) ==
    [value |-> (total + capacity) % Modulus, overflow |-> total + capacity >= Modulus]

RECURSIVE PartitionKeepsUnmatched(_, _, _, _)
\* the rest made of the cells that do not match only
PartitionKeepsUnmatched(overlay, query, max_mature_number, acc) ==
    IF overlay = <<>> THEN acc
    ELSE LET cell == Head(overlay)
             sum == AddCapacity(acc.total_capacity, cell.capacity)
         IN  IF ~match_cell(query, cell, max_mature_number)
             THEN PartitionKeepsUnmatched(Tail(overlay), query, max_mature_number,
                      [acc EXCEPT !.rest_cells = Append(@, cell)])
             ELSE IF acc.total_capacity < query.min_total_capacity
             THEN PartitionKeepsUnmatched(Tail(overlay), query, max_mature_number,
                      [acc EXCEPT !.cells = Append(@, cell),
                                  !.total_capacity = sum.value,
                                  !.overflow = @ \/ sum.overflow])
             ELSE PartitionKeepsUnmatched(Tail(overlay), query, max_mature_number, acc)

RECURSIVE Partition(_, _, _, _)
\* lines 152-166: the overlay split into the cells taken and the rest
Partition(overlay, query, max_mature_number, acc) ==
    IF overlay = <<>> THEN acc
    ELSE LET cell == Head(overlay)
             sum == AddCapacity(acc.total_capacity, cell.capacity)
         IN  IF /\ acc.total_capacity < query.min_total_capacity
                /\ match_cell(query, cell, max_mature_number)
             THEN Partition(Tail(overlay), query, max_mature_number,
                      [acc EXCEPT !.cells = Append(@, cell),
                                  !.total_capacity = sum.value,
                                  !.overflow = @ \/ sum.overflow])
             ELSE Partition(Tail(overlay), query, max_mature_number,
                      [acc EXCEPT !.rest_cells = Append(@, cell)])

RECURSIVE ScanPageCountsSkipped(_, _, _, _, _)
\* the capacity added before the cell is filtered
ScanPageCountsSkipped(objects, query, max_mature_number, locked, acc) ==
    IF objects = <<>> THEN acc
    ELSE LET live_cell == Head(objects)
             sum == AddCapacity(acc.total_capacity, live_cell.capacity)
             counted == [acc EXCEPT !.total_capacity = sum.value,
                                    !.overflow = @ \/ sum.overflow]
             pushed == [counted EXCEPT !.cells = Append(@, live_cell)]
         IN  IF \/ ~match_cell(query, live_cell, max_mature_number)
                \/ live_cell.out_point \in locked
             THEN ScanPageCountsSkipped(Tail(objects), query, max_mature_number, locked,
                                        counted)
             ELSE IF pushed.total_capacity >= query.min_total_capacity
                  THEN pushed
                  ELSE ScanPageCountsSkipped(Tail(objects), query, max_mature_number,
                                             locked, pushed)

RECURSIVE ScanPageToItsEnd(_, _, _, _, _)
\* the page read to its end, the threshold met or not
ScanPageToItsEnd(objects, query, max_mature_number, locked, acc) ==
    IF objects = <<>> THEN acc
    ELSE LET live_cell == Head(objects)
             sum == AddCapacity(acc.total_capacity, live_cell.capacity)
             pushed == [acc EXCEPT !.cells = Append(@, live_cell),
                                   !.total_capacity = sum.value,
                                   !.overflow = @ \/ sum.overflow]
         IN  IF \/ ~match_cell(query, live_cell, max_mature_number)
                \/ live_cell.out_point \in locked
             THEN ScanPageToItsEnd(Tail(objects), query, max_mature_number, locked, acc)
             ELSE ScanPageToItsEnd(Tail(objects), query, max_mature_number, locked,
                                   pushed)

RECURSIVE ScanPage(_, _, _, _, _)
\* lines 185-201: the cells of one page, in order, until the threshold is met
ScanPage(objects, query, max_mature_number, locked, acc) ==
    IF objects = <<>> THEN acc
    ELSE LET live_cell == Head(objects)
             sum == AddCapacity(acc.total_capacity, live_cell.capacity)
             pushed == [acc EXCEPT !.cells = Append(@, live_cell),
                                   !.total_capacity = sum.value,
                                   !.overflow = @ \/ sum.overflow]
         IN  IF \/ ~match_cell(query, live_cell, max_mature_number)
                \/ live_cell.out_point \in locked
             THEN ScanPage(Tail(objects), query, max_mature_number, locked, acc)
             ELSE IF pushed.total_capacity >= query.min_total_capacity
                  THEN pushed
                  ELSE ScanPage(Tail(objects), query, max_mature_number, locked, pushed)

\* lines 203-205
NextLimitUncapped(limit) == limit * 2
NextLimit(limit) == IF limit < max_limit THEN limit * 2 ELSE limit

\* lines 217-221: what lock_cell leaves in the Lock Set
Insert(locked, out_point) == locked \cup {out_point}

RECURSIVE LockAll(_, _)
\* self.lock_cell for every out_point of a sequence
LockAll(locked, out_points) ==
    IF out_points = <<>> THEN locked
    ELSE LockAll(Insert(locked, Head(out_points)), Tail(out_points))

OutPointSeq(cells) == [i \in 1..Len(cells) |-> cells[i].out_point]

\* if apply_changes { .. } (lines 167-169, 208-212): the bookkeeping changes
\* only when the caller asked for it
CommittedAlways(apply_changes, new, old) == new
Committed(apply_changes, new, old) == IF apply_changes THEN new ELSE old

\* line 170 (and the loop condition, line 177): the threshold is not met yet
NeedsIndexAtThreshold(total_capacity, query) ==
    total_capacity <= query.min_total_capacity
NeedsIndex(total_capacity, query) == total_capacity < query.min_total_capacity

\* lines 208-214: lock what is returned when apply_changes, and return it
Finish(cells, total_capacity, apply_changes) ==
    /\ locked_cells' =
           Committed(apply_changes, LockAll(locked_cells, OutPointSeq(cells)),
                     locked_cells)
    /\ given' = IF apply_changes THEN given \cup OutPointsOf(cells) ELSE given
    /\ Return(Result("collect", "ok", "", cells, total_capacity))

\* an addition overflowed in a build that checks: the call panics
Panic ==
    /\ pc' = "aborted"
    /\ ret' = Result("collect", "panic", "overflow", <<>>, 0)
    /\ UNCHANGED <<caller, local, tip_header, retry, locked_cells, given>>

\* the call, up to the node's answer to get_max_mature_number and the split
\* of the overlay (lines 149-171)
collect_live_cells(query, apply_changes, resp) ==
    /\ BeginWith(query, apply_changes)
    /\ net' = [NoNet EXCEPT !.node = 1, !.rpc_err = (resp.kind = "err")]
    /\ IF resp.kind = "err"
       THEN /\ Return(Err("collect", "internal"))
            /\ UNCHANGED <<locked_cells, offchain_live_cells, given>>
       ELSE LET p == Partition(offchain_live_cells, query, resp.value,
                         [cells |-> <<>>, rest_cells |-> <<>>,
                          total_capacity |-> 0, overflow |-> FALSE])
            IN  \/ /\ p.overflow
                   /\ Panic
                   /\ UNCHANGED offchain_live_cells
                \/ /\ offchain_live_cells' =
                          Committed(apply_changes, p.rest_cells, offchain_live_cells)
                   /\ IF NeedsIndex(p.total_capacity, query)
                      THEN /\ pc' = "tip_header"
                           /\ caller' = "collect"
                           /\ local' = [NoLocal EXCEPT
                                  !.query = query,
                                  !.apply_changes = apply_changes,
                                  !.max_mature_number = resp.value,
                                  !.cells = p.cells,
                                  !.total_capacity = p.total_capacity]
                           /\ ret' = NoResult
                           /\ UNCHANGED <<locked_cells, given, tip_header, retry>>
                      ELSE Finish(p.cells, p.total_capacity, apply_changes)
    /\ UNCHANGED providerVars

\* line 182: the page that ends the paging
IsLastPageWhenShort(objects) == Len(objects) < MaxPageLen
IsLastPage(objects) == objects = <<>>

\* line 202: the cursor the next request carries
NextCursorKept(last_cursor, page) == last_cursor
NextCursor(last_cursor, page) == page.last_cursor

\* the index service answers get_cells: one round of the loop (lines 177-206)
get_cells(page) ==
    LET s == ScanPage(page.objects, local.query, local.max_mature_number,
                 local.locked_cells,
                 [cells |-> local.cells,
                  total_capacity |-> local.total_capacity,
                  overflow |-> FALSE])
        took == page.kind = "ok" /\ Len(s.cells) > Len(local.cells)
        again == /\ page.kind = "ok"
                 /\ \E i \in 1..Len(page.objects), j \in 1..Len(local.cells) :
                        /\ local.cells[j].block_number > 0
                        /\ local.cells[j].out_point = page.objects[i].out_point
    IN
    /\ pc = "get_cells"
    /\ (page.kind = "ok" /\ page.objects # <<>>) => net.get_cells < MaxRequests
    /\ took => net.taken < MaxPages
    /\ net' = [net EXCEPT !.get_cells = @ + 1,
                          !.limit = local.limit,
                          !.cursor = local.last_cursor,
                          !.from = net.page_cursor,
                          !.page_cursor =
                              IF page.kind = "ok" THEN page.last_cursor ELSE NoCursor,
                          !.taken = IF took THEN @ + 1 ELSE @,
                          !.empty = (page.kind = "ok" /\ page.objects = <<>>),
                          !.rpc_err = (page.kind = "err"),
                          !.repeated = (@ \/ again)]
    /\ IF page.kind = "err"
       THEN /\ Return(Err("collect", "internal"))
            /\ UNCHANGED <<locked_cells, given>>
       ELSE IF IsLastPage(page.objects)
       THEN Finish(local.cells, local.total_capacity, local.apply_changes)
       ELSE \/ /\ s.overflow
               /\ Panic
            \/ IF NeedsIndex(s.total_capacity, local.query)
               THEN /\ local' = [local EXCEPT
                           !.cells = s.cells,
                           !.total_capacity = s.total_capacity,
                           !.last_cursor = NextCursor(local.last_cursor, page),
                           !.limit = NextLimit(local.limit)]
                    /\ UNCHANGED <<pc, caller, tip_header, retry, ret,
                                   locked_cells, given>>
               ELSE Finish(s.cells, s.total_capacity, local.apply_changes)
    /\ UNCHANGED <<offchain_live_cells, pre, observed>>
    /\ UNCHANGED providerVars

(***************************************************************************)
(* lock_cell, apply_tx, reset (lines 217-245).                             *)
(***************************************************************************)
Done(op, arg) ==
    /\ Return([Result(op, "ok", "", <<>>, 0) EXCEPT !.arg = arg])
    /\ net' = NoNet

lock_cell(out_point) ==
    /\ Begin
    /\ locked_cells' = Insert(locked_cells, out_point)
    /\ Done("lock_cell", 0)
    /\ UNCHANGED <<offchain_live_cells, given>>
    /\ UNCHANGED providerVars

\* the output index counted from 1
OutputCellsFromOne(tx) ==
    [i \in 1..Len(tx.outputs) |->
        LiveCell(OutPoint(tx.hash, i), tx.outputs[i].lock, tx.outputs[i].capacity, 0, 0)]

\* lines 228-238: the cells apply_tx makes of the outputs of a transaction
OutputCells(tx) ==
    [i \in 1..Len(tx.outputs) |->
        LiveCell(OutPoint(tx.hash, i - 1), tx.outputs[i].lock, tx.outputs[i].capacity, 0, 0)]

apply_tx(tx) ==
    /\ Begin
    /\ Len(offchain_live_cells) + Len(tx.outputs) <= MaxOverlay
    /\ locked_cells' = LockAll(locked_cells, tx.inputs)
    /\ offchain_live_cells' = offchain_live_cells \o OutputCells(tx)
    /\ Done("apply_tx", tx.hash)
    /\ UNCHANGED given
    /\ UNCHANGED providerVars

reset ==
    /\ Begin
    /\ locked_cells' = {}
    /\ offchain_live_cells' = <<>>
    /\ given' = {}
    /\ Done("reset", 0)
    /\ UNCHANGED providerVars

(***************************************************************************)
(* The collector: Lock Set and overlay start empty (lines 90-97).          *)
(***************************************************************************)
InitCollector ==
    /\ locked_cells = {}
    /\ offchain_live_cells = <<>>
    /\ pc = "idle"
    /\ caller = "none"
    /\ local = NoLocal
    /\ tip_header = NoTip
    /\ retry = 0
    /\ ret = NoResult
    /\ pre = [locked |-> {}, overlay |-> <<>>, given |-> {},
              query |-> NoLocal.query, apply_changes |-> FALSE]
    /\ given = {}
    /\ observed = <<>>
    /\ net = NoNet

(***************************************************************************)
(* DefaultTransactionDependencyProvider (lines 248-366).                   *)
(***************************************************************************)
Threads == 1..NThreads
Accessors == {"tx", "cell", "header"}
\* the keys asked for: transaction hashes, out_points, block hashes
TxHashes == {1, 2}
CellOutPoints == {1}
BlockHashes == {1}
CacheKeys ==
    (({"tx"} \X TxHashes) \cup ({"cell"} \X CellOutPoints)) \cup ({"header"} \X BlockHashes)
\* what is fetched: a key of one of the three caches, or the consensus
AccKeys == CacheKeys \cup { <<"consensus", 0>> }

\* the node's answers
TxResponses ==
    {RpcErr, [kind |-> "none"]}
        \cup { [kind |-> "some", status |-> st] : st \in {"pending", "proposed", "committed"} }
CellResponses ==
    {RpcErr} \cup { [kind |-> "some", status |-> st] : st \in {"live", "dead", "unknown"} }
HeaderResponses == {RpcErr, [kind |-> "none"], [kind |-> "some"]}
ConsensusResponses == {RpcErr, [kind |-> "some"]}

NoCall == [acc |-> "none", key |-> 0]
NoReturn == [status |-> "none", err |-> "", fetched |-> FALSE]

Range(seq) == { seq[i] : i \in 1..Len(seq) }
Without(seq, k) == SelectSeq(seq, LAMBDA x : x # k)

\* LruCache::get: a hit makes the entry the most recently used
LruGet(cache, k) == IF k \in Range(cache) THEN <<k>> \o Without(cache, k) ELSE cache

\* LruCache::put: nothing is kept with capacity 0; a full cache drops its least
\* recently used entry
LruPut(cache, cap, k) ==
    IF cap = 0 THEN cache
    ELSE IF k \in Range(cache) THEN <<k>> \o Without(cache, k)
    ELSE IF Len(cache) >= cap THEN <<k>> \o SubSeq(cache, 1, cap - 1)
    ELSE <<k>> \o cache

\* inner.*_cache.put(key, value) (lines 301-303, 342, 363)
StoredNothing(cache, cap, key) == cache
StoredWhateverCapacity(cache, cap, key) == <<key>> \o Without(cache, key)
Stored(cache, cap, key) == LruPut(cache, cap, key)

\* the cache after the node's answer: it is validated first, and only a valid
\* one is put (lines 334-342, 293-303, 360-363)
AfterReplyPutFirst(cache, cap, key, outcome) == Stored(cache, cap, key)
AfterReply(cache, cap, key, outcome) ==
    IF outcome = "ok" THEN Stored(cache, cap, key) ELSE cache

CacheOf(acc) ==
    CASE acc = "tx" -> tx_cache
      [] acc = "cell" -> cell_cache
      [] acc = "header" -> header_cache

\* the entry is there: the cache holds the key, the slot holds the consensus
Cached(acc, key) ==
    IF acc = "consensus" THEN consensus = "some" ELSE key \in Range(CacheOf(acc))

SetCache(acc, cache) ==
    /\ tx_cache' = IF acc = "tx" THEN cache ELSE tx_cache
    /\ cell_cache' = IF acc = "cell" THEN cache ELSE cell_cache
    /\ header_cache' = IF acc = "header" THEN cache ELSE header_cache

\* line 319: the consensus slot after the node's answer
MemoizedNever(slot, outcome) == slot
Memoized(slot, outcome) == IF outcome = "ok" THEN "some" ELSE slot

\* self.inner.lock() returns: no other thread holds the Mutex
LockFreeAlways == TRUE
LockFree == holder = 0

\* a thread calls an accessor (get_cell and get_cell_data are calls of
\* get_cell_with_data, lines 345-351)
call(t, acc, key) ==
    /\ tpc[t] = "idle"
    /\ calls < MaxCalls
    /\ calls' = calls + 1
    /\ tpc' = [tpc EXCEPT ![t] = "waiting"]
    /\ tcall' = [tcall EXCEPT ![t] = [acc |-> acc, key |-> key]]
    /\ tret' = [tret EXCEPT ![t] = NoReturn]
    /\ tsaw' = [tsaw EXCEPT ![t] =
                   IF \E u \in Threads \ {t} :
                          tpc[u] = "fetching" /\ tcall[u] = [acc |-> acc, key |-> key]
                   THEN "issued" ELSE "none"]
    /\ UNCHANGED <<cache_capacity, consensus, tx_cache, cell_cache, header_cache, holder,
                   fetches, failed, evicted>>
    /\ UNCHANGED collectorVars

\* the other threads waiting for the same accessor and key
Peers(t) == { u \in Threads \ {t} : tpc[u] = "waiting" /\ tcall[u] = tcall[t] }

\* the lock is taken and the cache looked up: a hit returns a copy and
\* releases the lock, a miss sends the request with the lock held
Lookup(t, acc) ==
    /\ LockFree
    /\ IF Cached(acc, tcall[t].key)
       THEN /\ IF acc = "consensus"
               THEN UNCHANGED <<tx_cache, cell_cache, header_cache>>
               ELSE SetCache(acc, LruGet(CacheOf(acc), tcall[t].key))
            /\ tpc' = [tpc EXCEPT ![t] = "idle"]
            /\ tret' = [tret EXCEPT ![t] = [status |-> "ok", err |-> "", fetched |-> FALSE]]
            /\ UNCHANGED <<holder, fetches, tsaw>>
       ELSE /\ holder' = t
            /\ tpc' = [tpc EXCEPT ![t] = "fetching"]
            /\ fetches' = [fetches EXCEPT ![<<acc, tcall[t].key>>] = @ + 1]
            /\ tsaw' = [u \in Threads |-> IF u \in Peers(t) THEN "issued" ELSE tsaw[u]]
            /\ UNCHANGED <<tx_cache, cell_cache, header_cache, tret>>
    /\ UNCHANGED <<cache_capacity, consensus, tcall, failed, evicted, calls>>
    /\ UNCHANGED collectorVars

\* the call of thread t ends with the lock released: with an error and nothing
\* stored, or with the value stored and returned
Complete(t, acc, outcome) ==
    LET key == tcall[t].key
        after == IF acc = "consensus" THEN <<>>
                 ELSE AfterReply(CacheOf(acc), cache_capacity, key, outcome)
        dropped == IF acc = "consensus" THEN {}
                   ELSE Range(CacheOf(acc)) \ Range(after)
        kept == outcome = "ok" /\ (acc = "consensus" \/ key \in Range(after))
    IN
    /\ IF acc = "consensus"
       THEN /\ consensus' = Memoized(consensus, outcome)
            /\ UNCHANGED <<tx_cache, cell_cache, header_cache>>
       ELSE /\ SetCache(acc, after)
            /\ UNCHANGED consensus
    /\ failed' = [failed EXCEPT ![<<acc, key>>] = IF outcome = "ok" THEN @ ELSE @ + 1]
    /\ evicted' = [ak \in AccKeys |->
                      IF ak[1] = acc /\ ak[2] \in dropped THEN evicted[ak] + 1
                      ELSE evicted[ak]]
    /\ tsaw' = [u \in Threads |->
                   IF u \in Peers(t) /\ tsaw[u] = "issued"
                   THEN (IF kept THEN "stored" ELSE "lost")
                   ELSE IF tpc[u] = "waiting" /\ tcall[u].acc = acc
                           /\ tcall[u].key \in dropped /\ tsaw[u] = "stored"
                   THEN "lost"
                   ELSE tsaw[u]]
    /\ holder' = IF holder = t THEN 0 ELSE holder
    /\ tpc' = [tpc EXCEPT ![t] = "idle"]
    /\ tret' = [tret EXCEPT ![t] =
                   [status |-> IF outcome = "ok" THEN "ok" ELSE "err",
                    err |-> IF outcome = "ok" THEN "" ELSE outcome,
                    fetched |-> TRUE]]
    /\ UNCHANGED <<cache_capacity, tcall, fetches, calls>>
    /\ UNCHANGED collectorVars

\* lines 331-340: the answer to get_transaction must be a committed transaction
TxOutcome(resp) ==
    IF resp.kind = "err" THEN "other"
    ELSE IF resp.kind = "none" THEN "not_found"
    ELSE IF resp.status # "committed" THEN "other"
    ELSE "ok"

\* lines 289-297: the answer to get_live_cell must be a live cell
CellOutcome(resp) ==
    IF resp.kind = "err" THEN "other"
    ELSE IF resp.status # "live" THEN "other"
    ELSE "ok"

\* lines 357-362: the node must have the header
HeaderOutcome(resp) ==
    IF resp.kind = "err" THEN "other"
    ELSE IF resp.kind = "none" THEN "not_found"
    ELSE "ok"

\* lines 314-318
ConsensusOutcome(resp) == IF resp.kind = "err" THEN "other" ELSE "ok"

\* thread t is at the start of its call of acc, or awaits the node's answer
At(t, acc, where) == tpc[t] = where /\ tcall[t].acc = acc

\* lines 326-333 and 334-343
get_transaction(t) ==
    /\ At(t, "tx", "waiting")
    /\ Lookup(t, "tx")
get_transaction_reply(t, resp) ==
    /\ At(t, "tx", "fetching")
    /\ Complete(t, "tx", TxOutcome(resp))

\* lines 284-292 and 293-304
get_cell_with_data(t) ==
    /\ At(t, "cell", "waiting")
    /\ Lookup(t, "cell")
get_cell_with_data_reply(t, resp) ==
    /\ At(t, "cell", "fetching")
    /\ Complete(t, "cell", CellOutcome(resp))

\* lines 353-359 and 360-364
get_header(t) ==
    /\ At(t, "header", "waiting")
    /\ Lookup(t, "header")
get_header_reply(t, resp) ==
    /\ At(t, "header", "fetching")
    /\ Complete(t, "header", HeaderOutcome(resp))

\* lines 310-316 and 317-320
get_consensus(t) ==
    /\ At(t, "consensus", "waiting")
    /\ Lookup(t, "consensus")
get_consensus_reply(t, resp) ==
    /\ At(t, "consensus", "fetching")
    /\ Complete(t, "consensus", ConsensusOutcome(resp))

\* lines 266-278: a provider made with some capacity, nothing cached
InitProvider(capacities) ==
    /\ cache_capacity \in capacities
    /\ consensus = "none"
    /\ tx_cache = <<>>
    /\ cell_cache = <<>>
    /\ header_cache = <<>>
    /\ holder = 0
    /\ tpc = [t \in Threads |-> "idle"]
    /\ tcall = [t \in Threads |-> NoCall]
    /\ tret = [t \in Threads |-> NoReturn]
    /\ tsaw = [t \in Threads |-> "none"]
    /\ fetches = [ak \in AccKeys |-> 0]
    /\ failed = [ak \in AccKeys |-> 0]
    /\ evicted = [ak \in AccKeys |-> 0]
    /\ calls = 0

(***************************************************************************)
(* The specifications: the collector used by its one owner, and the        *)
(* provider shared by the threads.                                         *)
(***************************************************************************)
Init == InitCollector /\ InitProvider({0})

Next ==
    \/ check_ckb_chain
    \/ \E resp \in TipHeaderResponses : get_tip_header(resp)
    \/ \E resp \in GetTipResponses : get_tip(resp)
    \/ \E query \in Queries, apply_changes \in BOOLEAN, resp \in MatureResponses :
           collect_live_cells(query, apply_changes, resp)
    \/ \E page \in PageResponses : get_cells(page)
    \/ \E out_point \in LockTargets : lock_cell(out_point)
    \/ \E tx \in TxPool : apply_tx(tx)
    \/ reset

Spec == Init /\ [][Next]_vars

InitP == InitCollector /\ InitProvider(0..MaxCapacity)

NextP ==
    \/ \E t \in Threads, ak \in AccKeys : call(t, ak[1], ak[2])
    \/ \E t \in Threads : get_transaction(t)
    \/ \E t \in Threads, resp \in TxResponses : get_transaction_reply(t, resp)
    \/ \E t \in Threads : get_cell_with_data(t)
    \/ \E t \in Threads, resp \in CellResponses : get_cell_with_data_reply(t, resp)
    \/ \E t \in Threads : get_header(t)
    \/ \E t \in Threads, resp \in HeaderResponses : get_header_reply(t, resp)
    \/ \E t \in Threads : get_consensus(t)
    \/ \E t \in Threads, resp \in ConsensusResponses : get_consensus_reply(t, resp)

SpecProvider == InitP /\ [][NextP]_vars

(***************************************************************************)
(* The collector's properties (specification Spec).                        *)
(***************************************************************************)
\* the last call was a collect that returned Ok((cells, total_capacity))
Collected == pc = "idle" /\ ret.op = "collect" /\ ret.status = "ok"

\* the last call was check_ckb_chain and it has returned
Checked == pc = "idle" /\ ret.op = "check"

AllBehind(obs) == \A i \in 1..Len(obs) : obs[i] = "behind"

\* C1: a successful collect returns no cell whose out_point was in the Lock
\* Set when it was called, be the cell from the overlay or from the index
\* service.
C1_NoLockedCellReturned ==
    Collected => \A i \in 1..Len(ret.cells) : ret.cells[i].out_point \notin pre.locked

\* C2: no out_point returned by a successful collect with apply_changes is
\* returned by a later collect before reset.
C2_NotOfferedAgain ==
    Collected => \A i \in 1..Len(ret.cells) : ret.cells[i].out_point \notin pre.given

\* C3: the total_capacity a successful collect returns is the sum of the
\* capacities of the cells it returns, whenever that sum fits the capacity word.
C3_TotalIsSum ==
    (Collected /\ SumCap(ret.cells) <= MaxU) => ret.total = SumCap(ret.cells)

\* a collect returned cells of the overlay and of the index service, having
\* skipped a locked one
C3_Witness ==
    /\ Collected
    /\ Len(ret.cells) >= 2
    /\ ret.cells[1].block_number = 0
    /\ ret.cells[Len(ret.cells)].block_number > 0
    /\ pre.locked # {}
    /\ ret.total = SumCap(ret.cells)

\* C4: check_ckb_chain succeeds exactly when a poll saw the index tip equal to
\* the node tip in number and hash, all earlier polls having seen it behind;
\* a poll that sees another hash at the same number, an index ahead or no tip
\* ends the call with an error, with no sleep and no further poll.
C4_SyncVerdict ==
    /\ (pc = "get_tip" => AllBehind(observed))
    /\ Checked =>
          /\ ret.status = "ok" <=>
                /\ observed # <<>>
                /\ observed[Len(observed)] = "match"
                /\ AllBehind(SubSeq(observed, 1, Len(observed) - 1))
          /\ (observed # <<>> /\ observed[Len(observed)] \in {"mismatch", "ahead", "none"}) =>
                /\ ret.status = "err"
                /\ AllBehind(SubSeq(observed, 1, Len(observed) - 1))
                /\ net.sleeps = Len(observed) - 1
                /\ net.get_tip = Len(observed)

\* the check succeeded after the index was seen behind
C4_Witness ==
    /\ Checked
    /\ ret.status = "ok"
    /\ Len(observed) >= 2

\* C5: check_ckb_chain polls the index tip at most 10 times; when every poll
\* sees the index behind it polls exactly 10 times, sleeping after each, and
\* returns the inconsistency error; it fetches the node tip once.
C5_BoundedPolls ==
    /\ net.get_tip <= RetryBudget
    /\ net.get_tip = Len(observed)
    /\ (pc = "get_tip" \/ Checked) => net.tip_header = 1
    /\ (Checked /\ observed # <<>> /\ AllBehind(observed)) =>
          /\ net.get_tip = RetryBudget
          /\ net.sleeps = RetryBudget
          /\ ret.status = "err"
          /\ ret.err = "inconsistent"

\* the index stayed behind through all the polls
C5_Witness ==
    /\ Checked
    /\ ret.status = "err"
    /\ Len(observed) = RetryBudget
    /\ AllBehind(observed)

\* the transaction apply_tx was called with
AppliedTx == CHOOSE tx \in TxPool : tx.hash = ret.arg

\* C6: apply_tx(tx) appends one cell per output of tx to the overlay, each with
\* block_number 0 and out_point (hash(tx), i) for its output index i, and leaves
\* in the Lock Set what was there and the out_points of the inputs of tx.
C6_ApplyTx ==
    (pc = "idle" /\ ret.op = "apply_tx") =>
        LET tx == AppliedTx
            n == Len(pre.overlay)
        IN  /\ Len(offchain_live_cells) = n + Len(tx.outputs)
            /\ SubSeq(offchain_live_cells, 1, n) = pre.overlay
            /\ \A i \in 1..Len(tx.outputs) :
                   /\ offchain_live_cells[n + i].block_number = 0
                   /\ offchain_live_cells[n + i].out_point = OutPoint(tx.hash, i - 1)
                   /\ offchain_live_cells[n + i].capacity = tx.outputs[i].capacity
            /\ locked_cells = pre.locked \cup { tx.inputs[i] : i \in 1..Len(tx.inputs) }
            /\ Cardinality({ tx.inputs[i] : i \in 1..Len(tx.inputs) }) = Len(tx.inputs)

\* a transaction with two inputs, one of them locked before, was applied to a
\* collector whose overlay was not empty
C6_Witness ==
    /\ pc = "idle"
    /\ ret.op = "apply_tx"
    /\ Len(AppliedTx.inputs) = 2
    /\ pre.overlay # <<>>
    /\ pre.locked # {}
    /\ Cardinality(locked_cells) = Cardinality(pre.locked) + 1

(***************************************************************************)
(* The provider's properties (specification SpecProvider).                 *)
(***************************************************************************)
InFlight == { t \in Threads : tpc[t] = "fetching" }

\* thread t's last call has returned a value taken from the cache
Hit(t) == tpc[t] = "idle" /\ tret[t].status = "ok" /\ ~tret[t].fetched

\* C7 as stated: with capacity >= 1 the calls made with one key issue at most
\* one network fetch for that key, whatever calls come in between and also
\* when a fetch fails.
C7_AtMostOneFetch ==
    cache_capacity >= 1 => \A ak \in CacheKeys : fetches[ak] <= 1

\* C7, amended: with capacity >= 1 the calls made with one key issue at most
\* one network fetch for that key, and one more for every fetch of the key
\* that failed and for every time its entry was evicted by capacity pressure.
C7_OneFetchUnlessFailedOrEvicted ==
    cache_capacity >= 1 =>
        \A ak \in CacheKeys : fetches[ak] <= 1 + failed[ak] + evicted[ak]

\* a key fetched once is served from the cache after a call for another key
C7_Witness ==
    /\ cache_capacity >= 1
    /\ \E t \in Threads, k \in TxHashes :
           /\ Hit(t)
           /\ tcall[t] = [acc |-> "tx", key |-> k]
           /\ fetches[<<"tx", k>>] = 1
           /\ \E other \in TxHashes \ {k} : fetches[<<"tx", other>>] = 1

\* C8: with capacity 0 every get_transaction, get_cell_with_data and
\* get_header call issues a network fetch, and the three caches stay empty.
C8_CapacityZero ==
    cache_capacity = 0 =>
        /\ tx_cache = <<>>
        /\ cell_cache = <<>>
        /\ header_cache = <<>>
        /\ \A t \in Threads :
               (tpc[t] = "idle" /\ tret[t].status # "none" /\ tcall[t].acc \in Accessors)
                   => tret[t].fetched

\* with capacity 0 a key was fetched twice, both times with success
C8_Witness ==
    /\ cache_capacity = 0
    /\ \E ak \in CacheKeys : fetches[ak] = 2 /\ failed[ak] = 0
    /\ \A t \in Threads : tpc[t] = "idle"

\* C9 as stated: of the threads calling one accessor concurrently for one cold
\* key (capacity >= 1) at most one issues the fetch: one fetch is in flight at
\* a time and the later caller has a cache hit.
C9_SingleFetch ==
    cache_capacity >= 1 =>
        /\ Cardinality(InFlight) <= 1
        /\ \A u \in Threads :
               (tpc[u] = "fetching" /\ tcall[u].acc \in Accessors) => tsaw[u] = "none"

\* C9, amended: at most one fetch is in flight at any time, and (capacity >= 1)
\* a caller that waited while another thread fetched its key has a cache hit,
\* unless that fetch failed, which stores nothing, or the entry was evicted
\* before the caller's lookup.
C9_SingleFlight ==
    /\ Cardinality(InFlight) <= 1
    /\ cache_capacity >= 1 =>
           \A u \in Threads :
               (tpc[u] = "fetching" /\ tcall[u].acc \in Accessors)
                   => tsaw[u] \in {"none", "lost"}

\* a thread waited while another fetched its key, and then had a cache hit
C9_Witness ==
    \E u \in Threads :
        /\ Hit(u)
        /\ tcall[u].acc \in Accessors
        /\ tsaw[u] = "stored"

\* thread t's call returns an error in this step
ReturnsError(t) == tpc[t] = "fetching" /\ tpc'[t] = "idle" /\ tret'[t].status = "err"

\* C10: a call of get_transaction, get_cell_with_data or get_header that
\* returns an error leaves the three caches and the consensus slot as they
\* were: no step from its cache lookup to its return changes them.
C10_ErrorLeavesCaches ==
    [][\A t \in Threads :
          (tcall[t].acc \in Accessors /\ (tpc'[t] = "fetching" \/ ReturnsError(t)))
              => UNCHANGED <<tx_cache, cell_cache, header_cache, consensus>>]_vars

\* a call returned an error to a provider holding entries and the consensus
C10_Witness ==
    \E t \in Threads :
        /\ tpc[t] = "idle"
        /\ tret[t].status = "err"
        /\ tcall[t].acc = "tx"
        /\ tx_cache # <<>>
        /\ consensus = "some"

(***************************************************************************)
(* More of the collector's properties (specification Spec).                *)
(***************************************************************************)
\* the running or last call is a collect
IsCollect == caller = "collect" \/ ret.op = "collect"

\* the last call was a collect that returned an error
CollectFailed == pc = "idle" /\ ret.op = "collect" /\ ret.status = "err"

\* the error check_ckb_chain returns after the polls obs
SyncError(obs) ==
    IF obs = <<>> THEN "internal"
    ELSE CASE obs[Len(obs)] = "err" -> "internal"
           [] obs[Len(obs)] = "none" -> "not_synced"
           [] OTHER -> "inconsistent"

\* C11: in a collect call every get_cells request to the index service comes
\* after a sync check of that call whose last poll saw the index tip match
\* the node tip; when the sync check fails the call returns its error and
\* has sent no get_cells request.
C11_SyncBeforeSearch ==
    IsCollect =>
        /\ (pc = "get_cells" \/ net.get_cells > 0) => (net.synced /\ net.tip_header = 1)
        /\ (pc = "idle" /\ net.tip_header = 1 /\ ~net.synced) =>
               /\ ret.status = "err"
               /\ ret.err = SyncError(observed)
               /\ ret.cells = <<>>
               /\ net.get_cells = 0

\* a collect that found the index in step returned cells of two pages
C11_Witness ==
    /\ Collected
    /\ net.synced
    /\ net.get_cells = 2
    /\ net.taken = 2

\* the sync check of a collect gave up after the index stayed behind
C11_WitnessFailed ==
    /\ CollectFailed
    /\ Len(observed) = RetryBudget
    /\ AllBehind(observed)
    /\ net.get_cells = 0

\* the matching cells of the overlay the call found reach the threshold of
\* its query (cells of the overlay have block_number 0: they are mature)
OverlaySuffices ==
    \A mm \in MatureNumbers :
        Partition(pre.overlay, pre.query, mm,
                  [cells |-> <<>>, rest_cells |-> <<>>, total_capacity |-> 0,
                   overflow |-> FALSE]).total_capacity >= pre.query.min_total_capacity

\* C12 as stated: a collect call whose overlay reaches the threshold sends no
\* request to the node and none to the index service.
C12_NoNetworkAccess ==
    (IsCollect /\ OverlaySuffices) =>
        /\ net.node = 0
        /\ net.get_tip = 0
        /\ net.get_cells = 0

\* C12, amended: a collect call whose overlay reaches the threshold runs no
\* sync check and sends no request to the index service; its one access to
\* the network is the maturity lookup at the node that comes before the
\* overlay is looked at, and the call ends there.
C12_NoIndexAccess ==
    (IsCollect /\ OverlaySuffices) =>
        /\ net.node = 1
        /\ net.tip_header = 0
        /\ net.get_tip = 0
        /\ net.get_cells = 0
        /\ pc \in {"idle", "aborted"}

\* a collect was answered from an overlay of two cells that holds just the
\* capacity asked for
C12_Witness ==
    /\ Collected
    /\ OverlaySuffices
    /\ pre.query.min_total_capacity > 0
    /\ Len(ret.cells) = 2
    /\ ret.total = pre.query.min_total_capacity
    /\ net.get_cells = 0

\* what a collect with this query takes of an overlay that reaches its threshold
FromOverlay(overlay, query) ==
    Partition(overlay, query, 0,
              [cells |-> <<>>, rest_cells |-> <<>>, total_capacity |-> 0,
               overflow |-> FALSE])

\* C13: a collect call with apply_changes = false leaves the Lock Set and the
\* Offchain Overlay as they were at the call, while it runs and when it has
\* returned a result or an error (or has panicked): a second such call finds
\* the state the first one found, and when the overlay answers the call, the
\* overlay left behind gives the very same result again.
C13_ReadOnlyCollect ==
    (IsCollect /\ ~pre.apply_changes) =>
        /\ locked_cells = pre.locked
        /\ offchain_live_cells = pre.overlay
        /\ given = pre.given
        /\ (Collected /\ OverlaySuffices) =>
               /\ ret.cells = FromOverlay(offchain_live_cells, pre.query).cells
               /\ ret.total = FromOverlay(offchain_live_cells, pre.query).total_capacity

\* a collect without apply_changes returned cells of the overlay and of the
\* index service, and all of them are still there and unlocked
C13_Witness ==
    /\ Collected
    /\ ~pre.apply_changes
    /\ Len(ret.cells) >= 2
    /\ ret.cells[1].block_number = 0
    /\ ret.cells[Len(ret.cells)].block_number > 0
    /\ ret.cells[1] = offchain_live_cells[1]
    /\ OutPointsOf(ret.cells) \cap locked_cells = {}

\* a collect without apply_changes failed on a collector with locks and an overlay
C13_WitnessFailed ==
    /\ CollectFailed
    /\ ~pre.apply_changes
    /\ net.get_cells >= 1
    /\ offchain_live_cells # <<>>
    /\ locked_cells # {}

\* C14: a shortfall is no error. A collect that returns an error had a request
\* fail or its sync check fail; a collect returns success with total_capacity
\* below query.min_total_capacity exactly when the index service answered its
\* last request with an empty page, and every other success has
\* total_capacity >= query.min_total_capacity.
C14_ShortfallIsSuccess ==
    /\ CollectFailed =>
           /\ ret.err \in {"internal", "not_synced", "inconsistent"}
           /\ net.rpc_err \/ (net.tip_header = 1 /\ net.get_cells = 0 /\ ~net.synced)
           /\ ret.err = "internal" <=> net.rpc_err
    /\ Collected =>
           /\ ret.total < pre.query.min_total_capacity <=> net.empty
           /\ net.empty => (net.synced /\ net.get_cells >= 1)

\* the index service ran out of cells after a cell was taken: success with
\* less than was asked for
C14_Witness ==
    /\ Collected
    /\ net.empty
    /\ net.get_cells = 2
    /\ Len(ret.cells) = 1
    /\ ret.total > 0
    /\ ret.total < pre.query.min_total_capacity

\* the cells of seq at the positions I, in their order
Sub(seq, I) ==
    LET F[i \in 0..Len(seq)] ==
            IF i = 0 THEN <<>>
            ELSE IF i \in I THEN Append(F[i - 1], seq[i]) ELSE F[i - 1]
    IN  F[Len(seq)]

\* C16: after a successful collect with apply_changes = true the overlay is
\* the overlay of before without the entries the result starts with, the
\* entries left keeping their order (matching cells beyond the threshold
\* among them); the other cells of the result are cells of the index
\* service; the Lock Set is the one of before and the out_points of all the
\* cells returned.
C16_CommittedCollect ==
    (Collected /\ pre.apply_changes) =>
        /\ \E I \in SUBSET (1..Len(pre.overlay)) :
               /\ Cardinality(I) <= Len(ret.cells)
               /\ Sub(pre.overlay, I) = SubSeq(ret.cells, 1, Cardinality(I))
               /\ Sub(pre.overlay, (1..Len(pre.overlay)) \ I) = offchain_live_cells
               /\ \A i \in (Cardinality(I) + 1)..Len(ret.cells) :
                      ret.cells[i].block_number > 0
        /\ locked_cells = pre.locked \cup OutPointsOf(ret.cells)

\* a collect with apply_changes took the first of three overlay cells and left
\* the others, matching cells beyond the threshold, and locked what it returned
C16_Witness ==
    /\ Collected
    /\ pre.apply_changes
    /\ Len(pre.overlay) = 3
    /\ ret.cells = << pre.overlay[1] >>
    /\ offchain_live_cells = << pre.overlay[2], pre.overlay[3] >>
    /\ pre.overlay[3].lock = pre.query.lock
    /\ pre.locked # {}
    /\ OutPointsOf(ret.cells) \cap pre.locked = {}
    /\ OutPointsOf(ret.cells) \subseteq locked_cells

\* the smaller of two numbers
Min(a, b) == IF a < b THEN a ELSE b

\* C17: the k-th get_cells request of a collect call asks for
\* min(128 * 2^(k-1), 4096) cells, never for more than 4096; the first
\* request carries no cursor and every later one the last_cursor of the page
\* the request before it was answered with.
C17_PageSizes ==
    (IsCollect /\ net.get_cells >= 1) =>
        /\ net.limit = Min(128 * 2 ^ (net.get_cells - 1), 4096)
        /\ net.limit <= 4096
        /\ net.get_cells = 1 => net.cursor = NoCursor
        /\ net.get_cells > 1 => (net.cursor = net.from /\ net.cursor \in Cursors)
        /\ pc = "get_cells" =>
               /\ local.limit = Min(128 * 2 ^ net.get_cells, 4096)
               /\ local.last_cursor = net.page_cursor

\* the request after the one that asked for 4096 cells asked for 4096 again,
\* with the cursor of the page before, which is not the one it got back
C17_Witness ==
    /\ IsCollect
    /\ net.get_cells = 7
    /\ net.limit = 4096
    /\ net.cursor = 1
    /\ net.page_cursor = 2
    /\ pc = "get_cells"

\* the cells of a result that are entries of the overlay come first
OverlayFirst(cells) ==
    \A i, j \in 1..Len(cells) :
        (cells[i].block_number = 0 /\ cells[j].block_number > 0) => i < j

\* C18: collecting stops when the threshold is met. In a successful result
\* with total_capacity >= min_total_capacity and a cell in it, total_capacity
\* less the capacity of the last cell is below min_total_capacity; the cells
\* of the overlay come before those of the index service; a get_cells
\* request is sent only while the total is below the threshold, so none is
\* sent once it is met.
C18_StopsAtThreshold ==
    /\ (Collected /\ ret.total >= pre.query.min_total_capacity /\ ret.cells # <<>>) =>
           /\ ret.total - ret.cells[Len(ret.cells)].capacity
                  < pre.query.min_total_capacity
           /\ ~net.empty
           /\ net.get_cells >= 1 => ret.cells[Len(ret.cells)].block_number > 0
    /\ Collected => OverlayFirst(ret.cells)
    /\ (IsCollect /\ pc = "get_cells") =>
           /\ local.total_capacity < local.query.min_total_capacity
           /\ OverlayFirst(local.cells)

\* an overlay of two cells below the threshold and one page of the index
\* service, whose cell meets the threshold and ends the result
C18_Witness ==
    /\ Collected
    /\ net.get_cells = 1
    /\ Len(ret.cells) = 3
    /\ ret.cells[2].block_number = 0
    /\ ret.cells[3].block_number > 0
    /\ ret.total = SumCap(ret.cells)
    /\ ret.total >= pre.query.min_total_capacity
    /\ SumCap(SubSeq(ret.cells, 1, 2)) < pre.query.min_total_capacity

\* C19: a collect call that returns an error leaves the Lock Set and the
\* Offchain Overlay as they were at the call, with apply_changes = true too:
\* no overlay cell is dropped that was not returned.
C19_ErrorLeavesBookkeeping ==
    CollectFailed =>
        /\ locked_cells = pre.locked
        /\ offchain_live_cells = pre.overlay

\* the out_points of the cells are all different
Distinct(cells) ==
    \A i, j \in 1..Len(cells) : cells[i].out_point = cells[j].out_point => i = j

\* C20: no out_point is twice in the result of a successful collect whose
\* index service reported no cell twice, also when the index service reports
\* a cell that apply_tx put in the overlay, or when apply_tx was called twice
\* with one transaction.
C20_NoCellTwice == (Collected /\ ~net.repeated) => Distinct(ret.cells)

(***************************************************************************)
(* More of the provider's properties (specification SpecProvider).         *)
(***************************************************************************)
TheConsensus == <<"consensus", 0>>

\* C15 as stated: whatever get_consensus calls the threads make, the
\* consensus is fetched from the node at most once.
C15_FetchedAtMostOnce == fetches[TheConsensus] <= 1

\* C15, amended: the consensus is fetched with success at most once: a fetch
\* that fails memoizes nothing and the next call fetches again, and from the
\* first fetch that succeeds on every call returns the memoized snapshot
\* without a fetch.
C15_FetchedOnceWithSuccess ==
    /\ fetches[TheConsensus] <= 1 + failed[TheConsensus]
    /\ consensus = "some" =>
           /\ fetches[TheConsensus] = 1 + failed[TheConsensus]
           /\ \A t \in Threads : ~At(t, "consensus", "fetching")
    /\ \A t \in Threads :
           (tpc[t] = "idle" /\ tcall[t].acc = "consensus" /\ tret[t].status = "ok")
               => consensus = "some"

\* two threads asked for the consensus: one fetched it, the other was given
\* the memoized snapshot
C15_Witness ==
    /\ consensus = "some"
    /\ fetches[TheConsensus] = 1
    /\ \E t, u \in Threads :
           /\ t # u
           /\ tcall[t].acc = "consensus" /\ tpc[t] = "idle" /\ tret[t].fetched
           /\ tcall[u].acc = "consensus" /\ Hit(u)

====
